---- MODULE Spec2Model ----
(***************************************************************************)
(* A model of the conversational agent orchestration engine of             *)
(* backend/main.py: the session registry (WorkflowManager), the /chat and  *)
(* DELETE /threads handlers, and the per-turn state machine (agent node,   *)
(* routing function, authorization node, tool node) that generate_response *)
(* drives.  The language model, the tool provider, the authorization       *)
(* handshake and the storage backend are external: their answers are       *)
(* drawn from small sets.                                                  *)
(***************************************************************************)
EXTENDS Integers, Sequences, FiniteSets, TLC

\* ------------------------------------------------------------------ bounds
\* chat requests issued in one behaviour
MaxRequests == 2
\* failures injected by the external collaborators in one behaviour
MaxFaults == 1
\* agent runs, over one behaviour, in which a free-running model emits tool calls
MaxToolRounds == 1
\* tool-call entries carried by the chunks of one model stream
MaxChunks == 2
\* length of a requested toolkit list
MaxToolkits == 2
\* login attempts made in one behaviour
MaxLogins == 7
\* advances of the clock in one behaviour
MaxTicks == 4
\* seconds over which the rate limiter is called, before and after one pause
MaxRateTime == 90
\* calls admitted, at a time, for a user or endpoint type other than the busy one
MaxOtherCalls == 1

\* ------------------------------------------------------- program constants
MAX_TOOL_CALLS_PER_TURN == 5
MAX_RECURSION_DEPTH == 25
ROUTING_WINDOW == 10

None == "None"
END == "__end__"
NoId == 0
\* Config.DEFAULT_TEMPERATURE, Config.DEFAULT_MAX_TOKENS
DEFAULT_TEMPERATURE == "0.7"
DEFAULT_MAX_TOKENS == 4000
\* ChatRequest.max_tokens is None
NoTokens == 0

Threads == {"t1", "t2"}
Toolkits == {"Calendar", "Drive"}
OLLAMA == "ollama"
OPENAI == "openai"
DefaultModel == "llama3.2"

\* the tool each toolkit contributes, and the provider's requires_auth flag
NoopTool == "Calendar.ListEvents"
AuthTool == "Drive.Upload"
ToolOf(k) == IF k = "Calendar" THEN NoopTool ELSE AuthTool
requires_auth(name) == name = AuthTool

\* ------------------------------------------------------------ sequences
ToSet(s) == {s[i] : i \in DOMAIN s}

ToolkitLists == UNION {[1..n -> Toolkits] : n \in 0..MaxToolkits}

RECURSIVE SumCalls(_)
SumCalls(ms) ==
  IF ms = <<>> THEN 0 ELSE Len(Head(ms).tool_calls) + SumCalls(Tail(ms))

LastN(ms, n) ==
  IF Len(ms) <= n THEN ms ELSE SubSeq(ms, Len(ms) - n + 1, Len(ms))

\* ------------------------------------------------------------- messages
Msg(type, content, calls, id) ==
  [type |-> type, content |-> content, tool_calls |-> calls, tool_call_id |-> id]

\* {"type": "human", "content": chat_req.prompt}
Human(prompt) == Msg("human", prompt, <<>>, NoId)
HumanMsg == Human("prompt")
ToolChangeMsg == Msg("system", "tool configuration updated", <<>>, NoId)

\* ids of the ToolCallRequests carried by the ai-role messages of ms
CallIds(ms) ==
  UNION {{ms[i].tool_calls[j].id : j \in DOMAIN ms[i].tool_calls} :
           i \in {k \in DOMAIN ms : ms[k].type = "ai"}}

MaxOf(S) == IF S = {} THEN 0 ELSE CHOOSE x \in S : \A y \in S : y <= x

\* ------------------------------------------------------------- dictionaries
\* a Python dict is a function on the set of its keys
Put(d, k, v) == [x \in DOMAIN d \cup {k} |-> IF x = k THEN v ELSE d[x]]
\* mutant: popping a key empties the dict
Pop_all(d, k) == [x \in {} |-> d[x]]
Pop(d, k) == [x \in DOMAIN d \ {k} |-> d[x]]
EmptyDict == [x \in {} |-> None]

VARIABLES
  workflows,        \* WorkflowManager.workflows: thread id -> graph
  configurations,   \* WorkflowManager.configurations: thread id -> config dict
  tool_managers,    \* WorkflowManager.tool_managers: thread id -> ToolManager
  ARCADE_API_KEY,   \* Config.ARCADE_API_KEY is set
  DATABASE_URL,     \* Config.DATABASE_URL is set
  saved,            \* the checkpointer: thread id -> persisted message history
  turns,            \* request id -> the chat turn generate_response runs for it
  nreq,             \* chat requests received so far
  resp,             \* the answer of the last /chat or DELETE handler call
  faults,           \* failures of external collaborators so far
  rounds,           \* tool-calling answers of a free-running model so far
  user,             \* the row of the registered account in the users table
  now,              \* datetime.utcnow(), in minutes
  attempts,         \* login requests received so far
  exchange,         \* the last exchange seen by the authentication layer
  memories,         \* the memory store: the entries of the user's namespace
  user_requests,    \* UserRateLimiter._user_requests: the deques of timestamps
  clock,            \* time.time(), in seconds
  last_cleanup,     \* UserRateLimiter._last_cleanup
  limited           \* the last call of enforce_rate_limit and how it ended

registry == <<workflows, configurations, tool_managers>>
env == <<ARCADE_API_KEY, DATABASE_URL>>
accounts == <<user, now, attempts, exchange>>
limiter == <<user_requests, clock, last_cleanup, limited>>
vars == <<workflows, configurations, tool_managers, ARCADE_API_KEY, DATABASE_URL,
          saved, turns, nreq, resp, faults, rounds, user, now, attempts, exchange,
          memories, user_requests, clock, last_cleanup, limited>>

Registry == [workflows |-> workflows, configurations |-> configurations,
             tool_managers |-> tool_managers]

\* ------------------------------------------------------- WorkflowManager
exists(reg, thread_id) == thread_id \in DOMAIN reg.workflows

get_current_toolkits(reg, thread_id) ==
  IF thread_id \in DOMAIN reg.configurations
    THEN reg.configurations[thread_id].toolkits ELSE <<>>

\* mutant: the tool manager of a deleted thread stays
delete_keeps_tool_manager(reg, thread_id) ==
  [workflows |-> Pop(reg.workflows, thread_id),
   configurations |-> Pop(reg.configurations, thread_id),
   tool_managers |-> reg.tool_managers]

delete(reg, thread_id) ==
  [workflows |-> Pop(reg.workflows, thread_id),
   configurations |-> Pop(reg.configurations, thread_id),
   tool_managers |-> Pop(reg.tool_managers, thread_id)]

\* mutant: the configuration is stored without the requested toolkits
set_workflow_no_toolkits(reg, thread_id, workflow, config) ==
  [reg EXCEPT !.workflows = Put(@, thread_id, workflow),
              !.configurations = Put(@, thread_id, [config EXCEPT !.toolkits = <<>>])]

set_workflow(reg, thread_id, workflow, config) ==
  [reg EXCEPT !.workflows = Put(@, thread_id, workflow),
              !.configurations = Put(@, thread_id, config)]

set_tool_manager(reg, thread_id, manager) ==
  [reg EXCEPT !.tool_managers = Put(@, thread_id, manager)]

\* ModelFactory.create_model raises for a hosted provider without an API key
\* (or when the provider's constructor fails: fault)
create_model_raises(provider, api_key, fault) ==
  (provider # OLLAMA /\ ~api_key) \/ fault = "create_model"

\* ToolManager(api_key=...) + init_tools: the Arcade client refuses to be
\* built without a key; init_tools may fail on its own (fault)
init_tools_raises(have_key, fault) == ~have_key \/ fault = "init_tools"

NoToolManager == [present |-> FALSE, toolkits |-> <<>>]
ToolManager(toolkits) == [present |-> TRUE, toolkits |-> toolkits]

\* tool_manager.to_langchain(): the tools of the initialised toolkits
to_langchain(toolkits) == {ToolOf(k) : k \in ToSet(toolkits)}

\* the StateGraph built in chat() and in reconfigure_workflow_tools():
\* the bound model, the bound tools and the tool manager its nodes close over
BuildModelWorkflow(provider, model, temperature, max_tokens, toolkits) ==
  [provider |-> provider, model |-> model,
   temperature |-> temperature, max_tokens |-> max_tokens,
   tools |-> to_langchain(toolkits),
   tool_manager |-> IF toolkits # <<>> THEN ToolManager(toolkits) ELSE NoToolManager]

\* the graph around a model created with config.DEFAULT_TEMPERATURE and
\* config.DEFAULT_MAX_TOKENS
BuildWorkflow(provider, model, toolkits) ==
  BuildModelWorkflow(provider, model, DEFAULT_TEMPERATURE, DEFAULT_MAX_TOKENS, toolkits)

NoChanges == [added_tools |-> {}, removed_tools |-> {},
              old_toolkits |-> <<>>, new_toolkits |-> <<>>]

\* mutant: the added tools are reported without subtracting the old ones
Changes_no_difference(old_toolkits, new_toolkits) ==
  [added_tools |-> ToSet(new_toolkits),
   removed_tools |-> ToSet(old_toolkits) \ ToSet(new_toolkits),
   old_toolkits |-> old_toolkits,
   new_toolkits |-> new_toolkits]

\* the "changes" dict reconfigure_workflow_tools returns
Changes(old_toolkits, new_toolkits) ==
  [added_tools |-> ToSet(new_toolkits) \ ToSet(old_toolkits),
   removed_tools |-> ToSet(old_toolkits) \ ToSet(new_toolkits),
   old_toolkits |-> old_toolkits,
   new_toolkits |-> new_toolkits]

\* mutant: the configuration is rebuilt and the memory flag is lost
Reconfigured_rebuilt(current_config, new_toolkits) ==
  [provider |-> current_config.provider, model |-> current_config.model,
   toolkits |-> new_toolkits, enable_memory |-> FALSE]

\* the configuration reconfigure_workflow_tools stores
Reconfigured(current_config, new_toolkits) ==
  [current_config EXCEPT !.toolkits = new_toolkits]

\* WorkflowManager.reconfigure_workflow_tools: the registry it leaves, whether
\* it raised, and the changes it reports
reconfigure_workflow_tools(reg, thread_id, new_toolkits, api_key, have_key, fault) ==
  IF ~exists(reg, thread_id)
    THEN [raised |-> TRUE, reg |-> reg, changes |-> NoChanges]
  ELSE
    LET current_config == reg.configurations[thread_id]
        old_toolkits == current_config.toolkits
        new_config == Reconfigured(current_config, new_toolkits)
    IN
    IF create_model_raises(current_config.provider, api_key, fault)
      THEN [raised |-> TRUE, reg |-> reg, changes |-> NoChanges]
    ELSE IF new_toolkits # <<>> /\ init_tools_raises(have_key, fault)
      THEN [raised |-> TRUE, reg |-> reg, changes |-> NoChanges]
    ELSE
      LET reg1 == IF new_toolkits # <<>>
                    THEN set_tool_manager(reg, thread_id, ToolManager(new_toolkits))
                    ELSE [reg EXCEPT !.tool_managers = Pop(@, thread_id)]
      IN
      IF new_toolkits # <<>> /\ fault = "bind_tools"
        THEN [raised |-> TRUE, reg |-> reg1, changes |-> NoChanges]
      ELSE
        [raised |-> FALSE,
         reg |-> [reg1 EXCEPT
                   !.workflows = Put(@, thread_id,
                      BuildWorkflow(new_config.provider, new_config.model, new_toolkits)),
                   !.configurations = Put(@, thread_id, new_config)],
         changes |-> Changes(old_toolkits, new_toolkits)]

\* create_tool_change_system_message returns "" when nothing changed
create_tool_change_system_message(changes) ==
  IF changes.added_tools = {} /\ changes.removed_tools = {}
    THEN <<>> ELSE <<ToolChangeMsg>>

\* ------------------------------------------------------------ POST /chat
Providers == {None, OPENAI}
FaultPoints == {"none", "create_model", "init_tools", "bind_tools"}

\* the ChatRequest bodies drawn by the clients
ChatRequests ==
  {rq \in [thread_id : Threads, provider : Providers, model : {None, "gpt-4"},
           api_key : BOOLEAN, temperature : {None, "0.2"}, max_tokens : {NoTokens, 100},
           toolkits : ToolkitLists, enable_memory : BOOLEAN] :
     /\ (rq.provider = None) <=> (rq.model = None)
     /\ (rq.temperature = None) <=> (rq.max_tokens = NoTokens)}

Answer(status, kind, reg, changes) ==
  [status |-> status, kind |-> kind, reg |-> reg, changes |-> changes]

\* mutant: the credential is not checked
arcade_key_unchecked(requested_toolkits, have_key) == FALSE

\* the credential check chat() makes before it reconfigures
arcade_key_missing(requested_toolkits, have_key) ==
  requested_toolkits # <<>> /\ ~have_key

\* mutant: the toolkit lists are compared as lists
toolkits_differ_ordered(current_toolkits, requested_toolkits) ==
  current_toolkits # requested_toolkits

\* the order-independent comparison chat() makes
toolkits_differ(current_toolkits, requested_toolkits) ==
  ToSet(current_toolkits) # ToSet(requested_toolkits)

\* chat(), first branch: the thread is not in the registry
chat_create(reg, rq, have_key, fault) ==
  LET provider == IF rq.provider = None THEN OLLAMA ELSE rq.provider
      model == IF rq.model = None THEN DefaultModel ELSE rq.model
      temperature == IF rq.temperature \in {None, "0"}
                       THEN DEFAULT_TEMPERATURE ELSE rq.temperature
      max_tokens == IF rq.max_tokens = NoTokens THEN DEFAULT_MAX_TOKENS ELSE rq.max_tokens
      config == [provider |-> provider, model |-> model,
                 toolkits |-> rq.toolkits, enable_memory |-> rq.enable_memory]
  IN
  IF provider # OLLAMA /\ ~rq.api_key
    THEN Answer(400, "create", reg, NoChanges)
  ELSE IF create_model_raises(provider, rq.api_key, fault)
    THEN Answer(500, "create", reg, NoChanges)
  ELSE IF rq.toolkits # <<>> /\ init_tools_raises(have_key, fault)
    THEN Answer(500, "create", reg, NoChanges)
  ELSE
    LET reg1 == IF rq.toolkits # <<>>
                  THEN set_tool_manager(reg, rq.thread_id, ToolManager(rq.toolkits))
                  ELSE reg
    IN
    IF rq.toolkits # <<>> /\ fault = "bind_tools"
      THEN Answer(500, "create", reg1, NoChanges)
    ELSE Answer(200, "create",
                set_workflow(reg1, rq.thread_id,
                             BuildModelWorkflow(provider, model, temperature, max_tokens,
                                                rq.toolkits),
                             config),
                NoChanges)

\* chat(), second branch: the thread exists
chat_existing(reg, rq, have_key, fault) ==
  LET current_toolkits == get_current_toolkits(reg, rq.thread_id)
      requested_toolkits == rq.toolkits
  IN
  IF toolkits_differ(current_toolkits, requested_toolkits)
    THEN IF arcade_key_missing(requested_toolkits, have_key)
           THEN Answer(400, "reconfigure", reg, NoChanges)
         ELSE
           LET res == reconfigure_workflow_tools(reg, rq.thread_id, requested_toolkits,
                                                 rq.api_key, have_key, fault)
           IN IF res.raised
                THEN Answer(500, "reconfigure", res.reg, NoChanges)
                ELSE Answer(200, "reconfigure", res.reg, res.changes)
    ELSE Answer(200, "unchanged", reg, NoChanges)

chat(reg, rq, have_key, fault) ==
  IF ~exists(reg, rq.thread_id)
    THEN chat_create(reg, rq, have_key, fault)
    ELSE chat_existing(reg, rq, have_key, fault)

\* the input messages chat() hands to generate_response
input_messages_of(ans, prompt) ==
  (IF ans.kind = "reconfigure"
     THEN create_tool_change_system_message(ans.changes) ELSE <<>>)
  \o <<Human(prompt)>>

input_messages(ans) == input_messages_of(ans, "prompt")

\* --------------------------------------------------------------- turns
\* the model behind a turn: free-running (0), or the synthetic model that
\* answers every agent run with a fixed number of calls to the no-op tool
Free == 0
Profiles == 0..MaxChunks
Requests == 1..MaxRequests

NoWorkflow == BuildWorkflow(OLLAMA, DefaultModel, <<>>)

IdleTurn ==
  [pc |-> "idle", thread_id |-> "t1", input |-> <<>>, profile |-> Free,
   workflow |-> NoWorkflow, stored |-> FALSE, messages |-> <<>>, steps |-> 0,
   chunks |-> 0, error |-> FALSE,
   \* what the external collaborators did in this turn
   authorized |-> {}, handshakes |-> 0, auth_failed |-> FALSE,
   executed |-> 0, outcome |-> <<>>, reruns |-> 0]

NewTurn(thread_id, input, profile) ==
  [IdleTurn EXCEPT !.pc = "start", !.thread_id = thread_id, !.input = input,
                   !.profile = profile]

NoRequest == [thread_id |-> "t1", provider |-> None, model |-> None,
              temperature |-> None, max_tokens |-> NoTokens,
              api_key |-> FALSE, toolkits |-> <<>>, enable_memory |-> FALSE]

NoResp == [op |-> "none", id |-> 0, request |-> NoRequest, status |-> 0,
           kind |-> "none", changes |-> NoChanges]

\* the users and endpoint types whose calls are followed
RatePairs == {<<"u1", "key_operations">>, <<"u1", "chat">>, <<"u2", "key_operations">>}

\* no call of the rate limiter yet
NoCall == [user_id |-> "none", endpoint_type |-> "none", at |-> 0, status |-> 0]

\* User.locked_until is NULL
NotLocked == -1

\* the row AuthService.register_user inserts
NewUser == [failed_login_attempts |-> 0, locked_until |-> NotLocked, is_active |-> TRUE]

\* no exchange yet
NoExchange ==
  [op |-> "none", path |-> <<>>, authorization |-> <<>>, email |-> "unknown",
   password_ok |-> FALSE, status |-> 0, passed |-> FALSE]

Init ==
  /\ workflows = EmptyDict
  /\ configurations = EmptyDict
  /\ tool_managers = EmptyDict
  /\ ARCADE_API_KEY \in BOOLEAN
  /\ DATABASE_URL \in BOOLEAN
  /\ saved = [t \in Threads |-> <<>>]
  /\ turns = [r \in Requests |-> IdleTurn]
  /\ nreq = 0
  /\ resp = NoResp
  /\ faults = 0
  /\ rounds = 0
  /\ user = NewUser
  /\ now = 0
  /\ attempts = 0
  /\ exchange = NoExchange
  /\ memories = <<>>
  /\ user_requests = [p \in RatePairs |-> <<>>]
  /\ clock = 0
  /\ last_cleanup = 0
  /\ limited = NoCall

SetRegistry(reg) ==
  /\ workflows' = reg.workflows
  /\ configurations' = reg.configurations
  /\ tool_managers' = reg.tool_managers

\* one POST /chat: the handler runs to its return without suspending
ChatWith(rq, profile, fault, prompt) ==
  /\ nreq < MaxRequests
  /\ LET ans == chat(Registry, rq, ARCADE_API_KEY, fault)
         id == nreq + 1
     IN
     /\ fault # "none" =>
          /\ faults < MaxFaults
          /\ ans # chat(Registry, rq, ARCADE_API_KEY, "none")
     /\ faults' = IF fault # "none" THEN faults + 1 ELSE faults
     /\ SetRegistry(ans.reg)
     /\ nreq' = id
     /\ resp' = [op |-> "chat", id |-> id, request |-> rq,
                 status |-> ans.status, kind |-> ans.kind, changes |-> ans.changes]
     /\ turns' = IF ans.status = 200
                   THEN [turns EXCEPT ![id] =
                           NewTurn(rq.thread_id, input_messages_of(ans, prompt), profile)]
                   ELSE turns
  /\ UNCHANGED <<env, limiter, accounts, memories, saved, rounds>>

\* one POST /chat with the plain prompt
Chat(rq, profile, fault) == ChatWith(rq, profile, fault, "prompt")

\* one DELETE /threads/{thread_id}
Delete(thread_id) ==
  /\ IF exists(Registry, thread_id)
       THEN /\ SetRegistry(delete(Registry, thread_id))
            /\ resp' = [NoResp EXCEPT !.op = "delete", !.request.thread_id = thread_id,
                                       !.status = 200]
       ELSE /\ UNCHANGED registry
            /\ resp' = [NoResp EXCEPT !.op = "delete", !.request.thread_id = thread_id,
                                       !.status = 404]
  /\ UNCHANGED <<env, limiter, accounts, memories, saved, turns, nreq, faults, rounds>>

\* ----------------------------------------------------------- agent node
\* tc.get("name", "").strip()
Blank == " "
Strip(name) == IF name \in {"", Blank} THEN "" ELSE name
\* mutant: every entry of a chunk is kept
IsValidCall_any(tc) == TRUE
IsValidCall(tc) == Strip(tc.name) # ""

\* the tool-call entries of the chunks of one model stream: a tool name, a
\* blank name, or "dup": the chunk repeats the entry of the chunk before it
Streams(names) ==
  {s \in UNION {[1..n -> names \cup {Blank, "dup"}] : n \in 0..MaxChunks} :
     s = <<>> \/ s[1] # "dup"}

RECURSIVE ChunkCall(_, _, _)
ChunkCall(s, i, base) ==
  IF s[i] = "dup" THEN ChunkCall(s, i - 1, base)
  ELSE [id |-> base + i, name |-> s[i]]

\* chunk.tool_calls over the whole stream; ids are generator-assigned
ChunkCalls(s, base) == [i \in DOMAIN s |-> ChunkCall(s, i, base)]

\* the tool names a model may call: the tools bound to it (a model without
\* bound tools may still emit a call)
ModelNames(workflow) == IF workflow.tools = {} THEN {NoopTool} ELSE workflow.tools

\* the synthetic model calls the no-op tool when it is bound to it, and
\* answers with text alone when it is not
Looping(tn) == tn.profile # Free /\ NoopTool \in tn.workflow.tools

\* what model.astream yields for one agent run
ModelAnswers(tn) ==
  IF Looping(tn)
    THEN {[fails |-> FALSE, text |-> FALSE,
           stream |-> [i \in 1..tn.profile |-> NoopTool]]}
  ELSE IF tn.profile # Free
    THEN [fails : BOOLEAN, text : {TRUE}, stream : {<<>>}]
  ELSE [fails : BOOLEAN, text : {TRUE}, stream : Streams(ModelNames(tn.workflow))]

\* _build_system_message: the system prompt of the agent node
SystemPrompt == Msg("system", "You are a helpful AI assistant", <<>>, NoId)

\* mutant: the system prompt is put in front of every history
ensure_system_message_always(messages, system) == <<system>> \o messages

\* _ensure_system_message: the list the agent node sends to the model
ensure_system_message(messages, system) ==
  IF messages = <<>> \/ messages[1].type # "system"
    THEN <<system>> \o messages
    ELSE messages

\* what the memory store does in one run of the agent node: the search finds
\* entries, finds none or fails; the write, when one is made, succeeds or fails
NoMemory == [search |-> "empty", put |-> "ok"]
MemoryOutcomes(store) ==
  IF store
    THEN [search : {"found", "empty", "raises"}, put : {"ok", "raises"}]
    ELSE {NoMemory}

MemoryFails(mem) == mem.search = "raises" \/ mem.put = "raises"

\* the prompts the clients send
Prompts == {"prompt", "Please REMEMBER", "remembrance"}

\* the characters of a prompt
Text(content) ==
  CASE content = "prompt" -> <<"p", "r", "o", "m", "p", "t">>
    [] content = "Please REMEMBER" -> <<"P", "l", "e", "a", "s", "e", " ", "R", "E", "M", "E", "M", "B", "E", "R">>
    [] content = "remembrance" -> <<"r", "e", "m", "e", "m", "b", "r", "a", "n", "c", "e">>

\* str.lower, over the letters the prompts use
lower_char(c) ==
  CASE c = "P" -> "p" [] c = "R" -> "r" [] c = "E" -> "e" [] c = "M" -> "m"
    [] c = "B" -> "b" [] OTHER -> c

str_lower(text) == [i \in DOMAIN text |-> lower_char(text[i])]

\* needle in text
Contains(text, needle) ==
  \E i \in 0..(Len(text) - Len(needle)) :
    SubSeq(text, i + 1, i + Len(needle)) = needle

\* mutant: the trigger is looked for in the content as it was typed
remember_requested_as_typed(content) == Contains(Text(content), <<"r", "e", "m", "e", "m", "b", "e", "r">>)

\* "remember" in content_str.lower()
remember_requested(content) == Contains(str_lower(Text(content)), <<"r", "e", "m", "e", "m", "b", "e", "r">>)

\* the last human message of the history, as call_agent looks for it
last_user_message(messages) ==
  LET humans == {i \in DOMAIN messages : messages[i].type = "human"}
  IN IF humans = {} THEN [found |-> FALSE, content |-> ""]
     ELSE [found |-> TRUE, content |-> messages[MaxOf(humans)].content]

\* mutant: a failure of the search leaves the node
memory_search_uncaught(store, mem) ==
  [raised |-> store /\ mem.search = "raises",
   memories_str |-> IF store /\ mem.search = "found" THEN "memories" ELSE ""]

\* call_agent, memory retrieval: store.asearch under try/except
memory_search(store, mem) ==
  [raised |-> FALSE,
   memories_str |-> IF store /\ mem.search = "found" THEN "memories" ELSE ""]

\* call_agent, memory storage: store.aput under try/except
memory_write(store, messages, mem) ==
  LET human == last_user_message(messages)
      attempted == store /\ human.found /\ remember_requested(human.content)
  IN [raised |-> FALSE,
      attempted |-> attempted,
      written |-> attempted /\ mem.put = "ok",
      data |-> human.content]

\* _build_system_message(memories_str, tool_manager)
build_system_message(memories_str, tool_manager) ==
  IF memories_str = "" /\ ~tool_manager.present THEN SystemPrompt
  ELSE Msg("system",
           IF memories_str = "" THEN "You are a helpful AI assistant with access to various tools"
           ELSE IF ~tool_manager.present THEN "You are a helpful AI assistant. User memories"
           ELSE "You are a helpful AI assistant with access to various tools. User memories",
           <<>>, NoId)

\* mutant: a failed stream keeps the calls accumulated before the failure
call_agent_keeps_calls(messages, answer) ==
  Msg("ai", IF answer.fails THEN "I encountered an error"
            ELSE IF answer.text THEN "text" ELSE "",
      SelectSeq(ChunkCalls(answer.stream, MaxOf(CallIds(messages))), IsValidCall),
      NoId)

\* call_agent: the one ai-role message the node returns
call_agent(messages, answer) ==
  IF answer.fails
    THEN Msg("ai", "I encountered an error", <<>>, NoId)
    ELSE Msg("ai", IF answer.text THEN "text" ELSE "",
             SelectSeq(ChunkCalls(answer.stream, MaxOf(CallIds(messages))), IsValidCall),
             NoId)

\* mutant: the node returns the system message it composed with its answer
node_update_with_system(sent, message) == <<sent[1], message>>

\* return {"messages": [serialize_message(response)]}
node_update(sent, message) == <<message>>

\* one run of the agent node: whether an exception leaves it, the list it
\* sends to the model, the message it composes and the update it returns
agent_node(tn, mem, answer) ==
  LET search == memory_search(tn.stored, mem)
      write == memory_write(tn.stored, tn.messages, mem)
  IN [raised |-> search.raised \/ write.raised,
      sent |-> ensure_system_message(tn.messages,
                 build_system_message(search.memories_str, tn.workflow.tool_manager)),
      put |-> write,
      message |-> call_agent(tn.messages, answer),
      update |-> node_update(
                   ensure_system_message(tn.messages,
                     build_system_message(search.memories_str, tn.workflow.tool_manager)),
                   call_agent(tn.messages, answer))]

\* mutant: only the first pending call is checked for authorization
should_continue_first_call(messages, tool_manager) ==
  LET tool_calls == messages[Len(messages)].tool_calls
      recent_tool_calls == SumCalls(LastN(messages, ROUTING_WINDOW))
  IN
  IF recent_tool_calls > MAX_TOOL_CALLS_PER_TURN THEN END
  ELSE IF tool_calls = <<>> THEN END
  ELSE IF tool_manager.present /\ requires_auth(tool_calls[1].name)
    THEN "authorization"
  ELSE "tools"

\* mutant: the routing function does not look for an empty call list
should_continue_no_empty_check(messages, tool_manager) ==
  LET tool_calls == messages[Len(messages)].tool_calls
      recent_tool_calls == SumCalls(LastN(messages, ROUTING_WINDOW))
  IN
  IF recent_tool_calls > MAX_TOOL_CALLS_PER_TURN THEN END
  ELSE IF tool_manager.present
          /\ \E i \in DOMAIN tool_calls : requires_auth(tool_calls[i].name)
    THEN "authorization"
  ELSE "tools"

\* mutant: a count equal to the ceiling trips it
should_continue_trips_at_ceiling(messages, tool_manager) ==
  LET tool_calls == messages[Len(messages)].tool_calls
      recent_tool_calls == SumCalls(LastN(messages, ROUTING_WINDOW))
  IN
  IF recent_tool_calls >= MAX_TOOL_CALLS_PER_TURN THEN END
  ELSE IF tool_calls = <<>> THEN END
  ELSE IF tool_manager.present
          /\ \E i \in DOMAIN tool_calls : requires_auth(tool_calls[i].name)
    THEN "authorization"
  ELSE "tools"

\* mutant: authorization is asked only when every pending call requires it
should_continue_all_calls(messages, tool_manager) ==
  LET tool_calls == messages[Len(messages)].tool_calls
      recent_tool_calls == SumCalls(LastN(messages, ROUTING_WINDOW))
  IN
  IF recent_tool_calls > MAX_TOOL_CALLS_PER_TURN THEN END
  ELSE IF tool_calls = <<>> THEN END
  ELSE IF tool_manager.present
          /\ \A i \in DOMAIN tool_calls : requires_auth(tool_calls[i].name)
    THEN "authorization"
  ELSE "tools"

\* ------------------------------------------------------ routing function
should_continue(messages, tool_manager) ==
  LET last_message == messages[Len(messages)]
      tool_calls == last_message.tool_calls
      recent_tool_calls == SumCalls(LastN(messages, ROUTING_WINDOW))
  IN
  IF recent_tool_calls > MAX_TOOL_CALLS_PER_TURN THEN END
  ELSE IF tool_calls = <<>> THEN END
  ELSE IF tool_manager.present
          /\ \E i \in DOMAIN tool_calls : requires_auth(tool_calls[i].name)
    THEN "authorization"
  ELSE "tools"

\* the edge out of the agent node: conditional when tools are bound
\* mutant: the toolless graph routes its agent node like the graph with tools
AfterAgent_always_routes(workflow, messages) ==
  should_continue(messages, workflow.tool_manager)

AfterAgent(workflow, messages) ==
  IF workflow.tools # {}
    THEN should_continue(messages, workflow.tool_manager)
    ELSE END

\* mutant: the authorization node hands back to the agent
Edge_authorization_to_agent(from) ==
  CASE from = "START" -> "agent"
    [] from = "authorization" -> "agent"
    [] from = "tools" -> "agent"

\* the unconditional edges of the graph: add_edge(from, to)
Edge(from) ==
  CASE from = "START" -> "agent"
    [] from = "authorization" -> "tools"
    [] from = "tools" -> "agent"

\* ------------------------------------------------------------ tool node
\* the ToolNode's answers for n calls: what each call did, and whether the
\* node let a failure escape as an exception
ToolOutcomes(n) ==
  {o \in [results : [1..n -> {"result", "error"}], raised : BOOLEAN] :
     o.raised => \E i \in 1..n : o.results[i] = "error"}

Failures(o) == Cardinality({i \in DOMAIN o.results : o.results[i] = "error"})

ToolResultMsg(tool_call, content) == Msg("tool", content, <<>>, tool_call.id)
\* mutant: the error message does not carry the id of its request
ToolErrorMsg_no_id(tool_call) == Msg("tool", "error", <<>>, NoId)
ToolErrorMsg(tool_call) == Msg("tool", "error", <<>>, tool_call.id)

\* mutant: a failure of the node is answered with one message for the batch
wrapped_tool_node_one_error(messages, o) ==
  LET tool_calls == messages[Len(messages)].tool_calls IN
  IF ~o.raised
    THEN [i \in DOMAIN tool_calls |->
            [type |-> "tool", content |-> o.results[i], tool_calls |-> <<>>,
             tool_call_id |-> tool_calls[i].id]]
    ELSE <<[type |-> "tool", content |-> "error", tool_calls |-> <<>>,
            tool_call_id |-> tool_calls[1].id]>>

\* wrapped_tool_node: the tool-role messages it returns
wrapped_tool_node(messages, o) ==
  LET tool_calls == messages[Len(messages)].tool_calls IN
  IF ~o.raised
    THEN [i \in DOMAIN tool_calls |-> ToolResultMsg(tool_calls[i], o.results[i])]
    ELSE [i \in DOMAIN tool_calls |-> ToolErrorMsg(tool_calls[i])]

\* ---------------------------------------------------- authorization node
\* the pending calls the node performs the handshake for
Flagged(tool_calls) ==
  SelectSeq(tool_calls, LAMBDA tc : requires_auth(tc.name))

\* one handshake: authorize() reports completed, or the wait ends authorized or not
Handshakes == {[status |-> "completed", is_authorized |-> TRUE],
               [status |-> "pending", is_authorized |-> TRUE],
               [status |-> "pending", is_authorized |-> FALSE]}

handshake_ok(h) == h.status = "completed" \/ h.is_authorized

\* what the provider granted, whatever the node made of it
Granted(h) == h.status = "completed" \/ h.is_authorized

\* authorize: the handshakes run in order and the first failure raises
\* hs[i] is the handshake answer for the i-th flagged call
FirstFailure(hs) ==
  IF \E i \in DOMAIN hs : ~handshake_ok(hs[i])
    THEN CHOOSE i \in DOMAIN hs :
           ~handshake_ok(hs[i]) /\ \A j \in 1..(i - 1) : handshake_ok(hs[j])
    ELSE 0

\* the pending ToolCallRequests: the tool calls of the last message
Pending(messages) ==
  IF messages = <<>> THEN <<>> ELSE messages[Len(messages)].tool_calls

\* ------------------------------------------------------ generate_response
\* the workflow starts over a fresh state: astream({"messages": input_messages})
BeginRun(tn, history, stored) ==
  [tn EXCEPT !.stored = stored, !.messages = history \o tn.input, !.steps = 0,
             !.pc = Edge("START"), !.authorized = {}, !.outcome = <<>>]

\* the generator is exhausted: the run's graph state and snapshot are dropped
Close(tn) ==
  [IdleTurn EXCEPT !.pc = "closed", !.thread_id = tn.thread_id,
                   !.chunks = tn.chunks, !.error = tn.error]

\* an exception leaves the workflow: the run with storage falls through to a
\* run without storage, the run without storage yields "[ERROR] ..."
Raise(tn) ==
  IF tn.stored
    THEN [BeginRun(tn, <<>>, FALSE) EXCEPT !.reruns = @ + 1]
    ELSE Close([tn EXCEPT !.error = TRUE, !.chunks = @ + 1])

Checkpoint(tn) ==
  saved' = IF tn.stored THEN [saved EXCEPT ![tn.thread_id] = tn.messages] ELSE saved

use_memory(reg, thread_id, database_url) ==
  /\ thread_id \in DOMAIN reg.configurations
  /\ reg.configurations[thread_id].enable_memory
  /\ database_url

\* mutant: the turn does not take the workflow of the registry
Snapshot_none(reg, tn) == tn

\* workflow_manager.get_workflow(thread_id): the graph the turn will run
Snapshot(reg, tn) == [tn EXCEPT !.workflow = reg.workflows[tn.thread_id]]

\* generate_response reads the registry and starts the workflow
GenStart(r, storage_fails) ==
  LET tn == turns[r] IN
  /\ tn.pc = "start"
  /\ IF ~exists(Registry, tn.thread_id)
       THEN \* HTTPException(404) raised inside the generator: the stream breaks
            /\ ~storage_fails
            /\ turns' = [turns EXCEPT ![r] = [Close(tn) EXCEPT !.pc = "aborted"]]
            /\ UNCHANGED <<saved, faults>>
       ELSE LET snap == Snapshot(Registry, tn) IN
            IF use_memory(Registry, tn.thread_id, DATABASE_URL)
              THEN IF storage_fails
                     THEN /\ faults < MaxFaults
                          /\ faults' = faults + 1
                          /\ turns' = [turns EXCEPT ![r] = Raise([snap EXCEPT !.stored = TRUE])]
                          /\ UNCHANGED saved
                     ELSE LET run == BeginRun(snap, saved[tn.thread_id], TRUE) IN
                          /\ turns' = [turns EXCEPT ![r] = run]
                          /\ Checkpoint(run)
                          /\ UNCHANGED faults
              ELSE /\ ~storage_fails
                   /\ turns' = [turns EXCEPT ![r] = BeginRun(snap, <<>>, FALSE)]
                   /\ UNCHANGED <<saved, faults>>
  /\ UNCHANGED <<registry, env, limiter, accounts, memories, nreq, resp, rounds>>

Running(tn) == tn.pc \in {"agent", "authorization", "tools"}

\* the agent node and the edge out of it
AgentStep(r, answer, mem, node) ==
  LET tn == turns[r]
      ai == node.message
      messages == tn.messages \o node.update
      next == AfterAgent(tn.workflow, messages)
      spends == ~Looping(tn) /\ ai.tool_calls # <<>>
      failures == (IF answer.fails THEN 1 ELSE 0) + (IF MemoryFails(mem) THEN 1 ELSE 0)
      ran == [tn EXCEPT !.messages = messages, !.steps = @ + 1, !.pc = next,
                        !.chunks = IF ~answer.fails /\ answer.text THEN @ + 1 ELSE @,
                        !.authorized = {}]
      after == IF next = END THEN Close(ran) ELSE ran
  IN
  /\ mem.put = "raises" => node.put.attempted
  /\ faults + failures <= MaxFaults
  /\ faults' = faults + failures
  /\ memories' = IF node.put.written THEN Append(memories, node.put.data) ELSE memories
  /\ IF node.raised
       THEN /\ turns' = [turns EXCEPT ![r] = Raise(tn)]
            /\ UNCHANGED <<saved, rounds>>
       ELSE /\ spends => rounds < MaxToolRounds
            /\ rounds' = IF spends THEN rounds + 1 ELSE rounds
            /\ turns' = [turns EXCEPT ![r] = after]
            /\ Checkpoint(ran)

AgentRun(r, answer) ==
  LET tn == turns[r] IN
  /\ tn.pc = "agent"
  /\ tn.steps < MAX_RECURSION_DEPTH
  /\ answer \in ModelAnswers(tn)
  /\ \E mem \in MemoryOutcomes(tn.stored) :
       AgentStep(r, answer, mem, agent_node(tn, mem, answer))
  /\ UNCHANGED <<registry, env, limiter, accounts, nreq, resp>>

\* the authorization node
AuthRun(r, hs) ==
  LET tn == turns[r]
      tool_calls == Pending(tn.messages)
      flagged == Flagged(tool_calls)
      k == FirstFailure(hs)
  IN
  /\ tn.pc = "authorization"
  /\ tn.steps < MAX_RECURSION_DEPTH
  /\ hs \in [DOMAIN flagged -> Handshakes]
  /\ IF k = 0
       THEN /\ turns' = [turns EXCEPT ![r] =
                 [tn EXCEPT !.pc = Edge("authorization"), !.steps = @ + 1,
                            !.handshakes = @ + Len(flagged),
                            !.authorized =
                               {flagged[i].id : i \in {j \in DOMAIN flagged : Granted(hs[j])}}]]
            /\ UNCHANGED faults
       ELSE /\ faults < MaxFaults
            /\ \A i \in DOMAIN hs : i > k => hs[i] = hs[k]
            /\ faults' = faults + 1
            /\ turns' = [turns EXCEPT ![r] =
                 Raise([tn EXCEPT !.handshakes = @ + k, !.auth_failed = TRUE])]
  /\ UNCHANGED <<registry, env, limiter, accounts, memories, saved, nreq, resp, rounds>>

\* the tool node
ToolRun(r, o) ==
  LET tn == turns[r]
      tool_calls == Pending(tn.messages)
      after == [tn EXCEPT !.messages = @ \o wrapped_tool_node(tn.messages, o),
                          !.steps = @ + 1, !.pc = Edge("tools"),
                          !.executed = @ + Len(tool_calls),
                          !.outcome = o.results]
  IN
  /\ tn.pc = "tools"
  /\ tn.steps < MAX_RECURSION_DEPTH
  /\ o \in ToolOutcomes(Len(tool_calls))
  /\ faults + Failures(o) <= MaxFaults
  /\ faults' = faults + Failures(o)
  /\ turns' = [turns EXCEPT ![r] = after]
  /\ Checkpoint(after)
  /\ UNCHANGED <<registry, env, limiter, accounts, memories, nreq, resp, rounds>>

\* GraphRecursionError: the step budget is spent and a node is still due
RecursionLimit(r) ==
  LET tn == turns[r] IN
  /\ Running(tn)
  /\ tn.steps >= MAX_RECURSION_DEPTH
  /\ turns' = [turns EXCEPT ![r] = Raise(tn)]
  /\ UNCHANGED <<registry, env, limiter, accounts, memories, saved, nreq, resp, faults, rounds>>

\* -------------------------------------------------- accounts and lockout
\* SecuritySettings
max_login_attempts == 5
lockout_duration_minutes == 15

\* User.is_locked at time t
is_locked(u, t) == u.locked_until # NotLocked /\ t < u.locked_until

Emails == {"registered", "unknown"}

\* mutant: the account is locked one failed attempt after the maximum
authenticate_user_locks_late(u, t, email, password_ok, token_fails) ==
  IF email # "registered" THEN [success |-> FALSE, message |-> "Invalid email or password", user |-> u]
  ELSE IF is_locked(u, t) THEN [success |-> FALSE, message |-> "Account locked until", user |-> u]
  ELSE IF ~u.is_active THEN [success |-> FALSE, message |-> "Account deactivated", user |-> u]
  ELSE IF ~password_ok
    THEN LET failed == u.failed_login_attempts + 1 IN
         [success |-> FALSE, message |-> "Invalid email or password",
          user |-> [u EXCEPT !.failed_login_attempts = failed,
                             !.locked_until = IF failed > max_login_attempts
                                                THEN t + lockout_duration_minutes ELSE @]]
    ELSE [success |-> ~token_fails,
          message |-> IF token_fails THEN "Login failed" ELSE "Login successful",
          user |-> [u EXCEPT !.failed_login_attempts = 0, !.locked_until = NotLocked]]

\* AuthService.authenticate_user: the row after the call and what it returns
authenticate_user(u, t, email, password_ok, token_fails) ==
  IF email # "registered" THEN [success |-> FALSE, message |-> "Invalid email or password", user |-> u]
  ELSE IF is_locked(u, t) THEN [success |-> FALSE, message |-> "Account locked until", user |-> u]
  ELSE IF ~u.is_active THEN [success |-> FALSE, message |-> "Account deactivated", user |-> u]
  ELSE IF ~password_ok
    THEN LET failed == u.failed_login_attempts + 1 IN
         [success |-> FALSE, message |-> "Invalid email or password",
          user |-> [u EXCEPT !.failed_login_attempts = failed,
                             !.locked_until = IF failed >= max_login_attempts
                                                THEN t + lockout_duration_minutes ELSE @]]
    ELSE [success |-> ~token_fails,
          message |-> IF token_fails THEN "Login failed" ELSE "Login successful",
          user |-> [u EXCEPT !.failed_login_attempts = 0, !.locked_until = NotLocked]]

\* login_user: the status of the answer
login_user(out) ==
  IF out.success THEN 200
  ELSE IF out.message = "Account locked until" THEN 423
  ELSE 401

\* -------------------------------------------- AuthenticationMiddleware
public_paths ==
  {<<"/", "d", "o", "c", "s">>,
   <<"/", "r", "e", "d", "o", "c">>,
   <<"/", "o", "p", "e", "n", "a", "p", "i", ".", "j", "s", "o", "n">>,
   <<"/", "h", "e", "a", "l", "t", "h">>,
   <<"/">>,
   <<"/", "a", "u", "t", "h", "/", "l", "o", "g", "i", "n">>,
   <<"/", "a", "u", "t", "h", "/", "r", "e", "g", "i", "s", "t", "e", "r">>,
   <<"/", "a", "u", "t", "h", "/", "r", "e", "f", "r", "e", "s", "h">>}

optional_auth_paths ==
  {<<"/", "m", "o", "d", "e", "l", "s">>,
   <<"/", "t", "o", "o", "l", "k", "i", "t", "s">>}

\* the request paths tried
Paths ==
  {<<"/">>,
   <<"/", "h", "e", "a", "l", "t", "h">>,
   <<"/", "c", "h", "a", "t">>,
   <<"/", "t", "h", "r", "e", "a", "d", "s", "/", "t", "1", "/", "s", "t", "a", "t", "u", "s">>,
   <<"/", "m", "o", "d", "e", "l", "s">>,
   <<"/", "a", "u", "t", "h", "/", "l", "o", "g", "i", "n">>}

\* str.startswith
startswith(path, prefix) ==
  /\ Len(prefix) <= Len(path)
  /\ SubSeq(path, 1, Len(prefix)) = prefix

_is_public_path(path) == \E public_path \in public_paths : startswith(path, public_path)

_is_optional_auth_path(path) ==
  \E optional_path \in optional_auth_paths : startswith(path, optional_path)

\* the Authorization header: absent, or its words
Authorizations ==
  {<<>>, <<"Bearer", "good">>, <<"bearer", "good">>, <<"Bearer", "bad">>,
   <<"Basic", "good">>, <<"good">>}

lower(scheme) == IF scheme = "Bearer" THEN "bearer" ELSE IF scheme = "Basic" THEN "basic" ELSE scheme

_extract_token(authorization) ==
  IF Len(authorization) # 2 THEN None
  ELSE IF lower(authorization[1]) # "bearer" THEN None
  ELSE authorization[2]

\* _get_user_from_token over AuthService.get_current_user: is there a user
_get_user_from_token(token, u, t) == token = "good" /\ u.is_active /\ ~is_locked(u, t)

\* AuthenticationMiddleware.dispatch: the status answered and whether
\* call_next ran
dispatch(path, authorization, u, t, rate_limited) ==
  LET token == _extract_token(authorization)
      passes == [status |-> 200, passed |-> TRUE]
      rejects(status) == [status |-> status, passed |-> FALSE]
  IN
  IF _is_public_path(path) THEN passes
  ELSE IF token # None
    THEN IF _get_user_from_token(token, u, t)
           THEN IF ~u.is_active THEN rejects(400)
                ELSE IF is_locked(u, t) THEN rejects(423)
                ELSE IF rate_limited THEN rejects(429)
                ELSE passes
           ELSE IF ~_is_optional_auth_path(path) THEN rejects(401) ELSE passes
    ELSE IF ~_is_optional_auth_path(path) THEN rejects(401) ELSE passes

\* ------------------------------------------------- the authentication layer
\* POST /auth/login
Login(email, password_ok, token_fails) ==
  LET out == authenticate_user(user, now, email, password_ok, token_fails) IN
  /\ attempts < MaxLogins
  /\ attempts' = attempts + 1
  /\ user' = out.user
  /\ exchange' = [NoExchange EXCEPT !.op = "login", !.email = email,
                                !.password_ok = password_ok,
                                !.status = login_user(out), !.passed = out.success]
  /\ UNCHANGED <<registry, env, limiter, memories, saved, turns, nreq, resp, faults, rounds, now>>

\* POST /admin/users/manage
ManageUser(action) ==
  /\ user' = CASE action = "activate" -> [user EXCEPT !.is_active = TRUE]
               [] action = "deactivate" -> [user EXCEPT !.is_active = FALSE]
               [] action = "unlock" -> [user EXCEPT !.failed_login_attempts = 0,
                                                    !.locked_until = NotLocked]
  /\ exchange' = [NoExchange EXCEPT !.op = action, !.status = 200, !.passed = TRUE]
  /\ UNCHANGED <<registry, env, limiter, memories, saved, turns, nreq, resp, faults, rounds, now, attempts>>

\* a request to any other route, through the middleware
Dispatch(path, authorization, rate_limited) ==
  LET out == dispatch(path, authorization, user, now, rate_limited) IN
  /\ exchange' = [NoExchange EXCEPT !.op = "dispatch", !.path = path,
                                !.authorization = authorization,
                                !.status = out.status, !.passed = out.passed]
  /\ UNCHANGED <<registry, env, limiter, memories, saved, turns, nreq, resp, faults, rounds, user, now, attempts>>

\* time passes, a third of the lockout duration at a time
Tick ==
  /\ now < MaxTicks * (lockout_duration_minutes \div 3)
  /\ now' = now + lockout_duration_minutes \div 3
  /\ UNCHANGED <<registry, env, limiter, memories, saved, turns, nreq, resp, faults, rounds, user, attempts, exchange>>

\* ------------------------------------------------------ UserRateLimiter
\* RateLimitSettings
chat_requests_per_minute == 30
key_operations_per_minute == 10
model_requests_per_minute == 20
\* the fallback of _get_rate_limit, the window of check_rate_limit, the
\* interval and the horizon of _cleanup_old_requests, in seconds
DEFAULT_RATE_LIMIT == 60
RATE_WINDOW == 60
CLEANUP_INTERVAL == 300
CLEANUP_HORIZON == 3600

_get_rate_limit(endpoint_type) ==
  CASE endpoint_type = "chat" -> chat_requests_per_minute
    [] endpoint_type = "key_operations" -> key_operations_per_minute
    [] endpoint_type = "model_requests" -> model_requests_per_minute
    [] OTHER -> DEFAULT_RATE_LIMIT

\* while request_times and request_times[0] < cutoff: request_times.popleft()
RECURSIVE popleft_while_older(_, _)
popleft_while_older(request_times, cutoff) ==
  IF request_times # <<>> /\ request_times[1] < cutoff
    THEN popleft_while_older(Tail(request_times), cutoff)
    ELSE request_times

\* _cleanup_old_requests at time t: the deques and _last_cleanup it leaves
_cleanup_old_requests(requests, cleaned, t) ==
  IF t - cleaned < CLEANUP_INTERVAL
    THEN [requests |-> requests, last_cleanup |-> cleaned]
    ELSE [requests |-> [p \in DOMAIN requests |->
                          popleft_while_older(requests[p], t - CLEANUP_HORIZON)],
          last_cleanup |-> t]

\* mutant: a user at the limit is still within it
check_rate_limit_at_limit(requests, cleaned, t, user_id, endpoint_type) ==
  LET swept == _cleanup_old_requests(requests, cleaned, t)
      key == <<user_id, endpoint_type>>
      kept == popleft_while_older(swept.requests[key], t - RATE_WINDOW)
  IN [requests |-> [swept.requests EXCEPT ![key] = kept],
      last_cleanup |-> swept.last_cleanup,
      within |-> Len(kept) <= _get_rate_limit(endpoint_type)]

\* check_rate_limit at time t: what it leaves and what it returns
check_rate_limit(requests, cleaned, t, user_id, endpoint_type) ==
  LET swept == _cleanup_old_requests(requests, cleaned, t)
      key == <<user_id, endpoint_type>>
      kept == popleft_while_older(swept.requests[key], t - RATE_WINDOW)
  IN [requests |-> [swept.requests EXCEPT ![key] = kept],
      last_cleanup |-> swept.last_cleanup,
      within |-> Len(kept) < _get_rate_limit(endpoint_type)]

record_request(requests, t, user_id, endpoint_type) ==
  [requests EXCEPT ![<<user_id, endpoint_type>>] = Append(@, t)]

\* enforce_rate_limit at time t: what it leaves and whether it raised 429
enforce_rate_limit(requests, cleaned, t, user_id, endpoint_type) ==
  LET checked == check_rate_limit(requests, cleaned, t, user_id, endpoint_type)
  IN IF ~checked.within
       THEN [requests |-> checked.requests, last_cleanup |-> checked.last_cleanup,
             status |-> 429]
       ELSE [requests |-> record_request(checked.requests, t, user_id, endpoint_type),
             last_cleanup |-> checked.last_cleanup, status |-> 200]

\* one call of enforce_rate_limit
Enforce(user_id, endpoint_type) ==
  LET out == enforce_rate_limit(user_requests, last_cleanup, clock, user_id, endpoint_type)
      busy == <<user_id, endpoint_type>> = <<"u1", "key_operations">>
  IN
  /\ busy \/ Len(user_requests[<<user_id, endpoint_type>>]) < MaxOtherCalls
  /\ user_requests' = out.requests
  /\ last_cleanup' = out.last_cleanup
  /\ limited' = [user_id |-> user_id, endpoint_type |-> endpoint_type, at |-> clock,
                 status |-> out.status]
  /\ UNCHANGED <<registry, env, accounts, memories, saved, turns, nreq, resp, faults,
                 rounds, clock>>

\* time passes: half a window at a time, and once for a cleanup interval
RateTick(seconds) ==
  /\ IF seconds = CLEANUP_INTERVAL
       THEN clock < CLEANUP_INTERVAL
       ELSE (clock % CLEANUP_INTERVAL) + seconds <= MaxRateTime
  /\ clock' = clock + seconds
  /\ UNCHANGED <<registry, env, accounts, memories, saved, turns, nreq, resp, faults,
                 rounds, user_requests, last_cleanup, limited>>

\* the requests of the clients that talk to one thread of a local model
LocalToolkitLists == {<<>>, <<"Calendar">>, <<"Drive">>, <<"Calendar", "Drive">>}

LocalRequests ==
  {rq \in ChatRequests :
     /\ rq.thread_id = "t1" /\ rq.provider = None /\ ~rq.api_key
     /\ rq.temperature = None
     /\ rq.enable_memory /\ rq.toolkits \in LocalToolkitLists}

\* no turn is in flight
Quiet == \A r \in Requests : ~turns[r].pc \in {"start", "agent", "authorization", "tools"}

\* Spec: one client that waits for the end of a turn before its next request,
\* in front of any model
Next ==
  \/ \E rq \in LocalRequests, profile \in Profiles : Quiet /\ Chat(rq, profile, "none")
  \/ Quiet /\ Delete("t1")
  \/ \E r \in Requests, storage_fails \in BOOLEAN : GenStart(r, storage_fails)
  \/ \E r \in Requests :
       \E answer \in ModelAnswers(turns[r]) : AgentRun(r, answer)
  \/ \E r \in Requests :
       \E hs \in [DOMAIN Flagged(Pending(turns[r].messages)) -> Handshakes] :
          AuthRun(r, hs)
  \/ \E r \in Requests :
       \E o \in ToolOutcomes(Len(Pending(turns[r].messages))) : ToolRun(r, o)
  \/ \E r \in Requests : RecursionLimit(r)

Spec == Init /\ [][Next]_vars

\* ConcurrentSpec: clients that do not wait for each other, in front of the
\* synthetic model that calls the no-op tool MaxChunks times per answer
NextConcurrent ==
  \/ \E rq \in LocalRequests, fault \in FaultPoints : Chat(rq, MaxChunks, fault)
  \/ Delete("t1")
  \/ \E r \in Requests, storage_fails \in BOOLEAN : GenStart(r, storage_fails)
  \/ \E r \in Requests :
       \E answer \in ModelAnswers(turns[r]) : AgentRun(r, answer)
  \/ \E r \in Requests :
       \E o \in ToolOutcomes(Len(Pending(turns[r].messages))) : ToolRun(r, o)

ConcurrentSpec == Init /\ [][NextConcurrent]_vars

\* RegistrySpec: the handlers alone, over every request field
NextRegistry ==
  \/ \E rq \in ChatRequests, fault \in FaultPoints : Chat(rq, Free, fault)
  \/ \E thread_id \in Threads : Delete(thread_id)

RegistrySpec == Init /\ [][NextRegistry]_vars

\* MemorySpec: one client of one thread, with or without the Calendar toolkit
\* and with or without memory, sending any of the prompts
MemoryRequests ==
  {rq \in ChatRequests :
     /\ rq.thread_id = "t1" /\ rq.provider = None /\ ~rq.api_key
     /\ rq.temperature = None
     /\ rq.toolkits \in {<<>>, <<"Calendar">>}}

NextMemory ==
  \/ \E rq \in MemoryRequests, profile \in {Free, MaxChunks}, prompt \in Prompts :
       Quiet /\ ChatWith(rq, profile, "none", prompt)
  \/ \E r \in Requests, storage_fails \in BOOLEAN : GenStart(r, storage_fails)
  \/ \E r \in Requests :
       \E answer \in ModelAnswers(turns[r]) : AgentRun(r, answer)
  \/ \E r \in Requests :
       \E o \in ToolOutcomes(Len(Pending(turns[r].messages))) : ToolRun(r, o)

MemorySpec == Init /\ [][NextMemory]_vars

\* RateSpec: the rate limiter alone
NextRate ==
  \/ \E p \in RatePairs : Enforce(p[1], p[2])
  \/ \E seconds \in {RATE_WINDOW \div 2, CLEANUP_INTERVAL} : RateTick(seconds)

RateSpec == Init /\ [][NextRate]_vars

\* AuthSpec: the accounts, the login route and the middleware
NextAuth ==
  \/ \E email \in Emails, password_ok \in BOOLEAN, token_fails \in BOOLEAN :
       Login(email, password_ok, token_fails)
  \/ \E action \in {"activate", "deactivate", "unlock"} : ManageUser(action)
  \/ \E path \in Paths, authorization \in Authorizations, rate_limited \in BOOLEAN :
       Dispatch(path, authorization, rate_limited)
  \/ Tick

AuthSpec == Init /\ [][NextAuth]_vars

\* ================================================================ claims
InFlight(tn) == tn.pc \in {"start", "agent", "authorization", "tools"}
ChatStep == nreq' = nreq + 1
Last(ms) == ms[Len(ms)]

\* ---- C1 (as claimed): in front of the synthetic model that answers every
\* agent run with calls to the no-op tool, the routing function stops sending
\* the turn to the tool node within the ceiling: no run of the workflow hands
\* more than MAX_TOOL_CALLS_PER_TURN calls to the tool node (no collaborator
\* failing).
C1_LoopCeilingTrips ==
  \A r \in Requests :
    (Looping(turns[r]) /\ faults = 0) => turns[r].executed <= MAX_TOOL_CALLS_PER_TURN

\* ---- C2: the tool node is only entered with every pending call that
\* requires authorization granted by the provider in this run, and a
\* successful authorization node adds no message and hands over to the tools.
C2_Gated ==
  \A r \in Requests :
    turns[r].pc = "tools" =>
      \A i \in DOMAIN Pending(turns[r].messages) :
        requires_auth(Pending(turns[r].messages)[i].name)
          => Pending(turns[r].messages)[i].id \in turns[r].authorized

C2_AuthorizationGating ==
  [][ /\ C2_Gated'
      /\ \A r \in Requests :
           (/\ turns[r].pc = "authorization" /\ turns'[r] # turns[r]
            /\ Running(turns'[r]) /\ turns'[r].stored = turns[r].stored)
             => /\ turns'[r].pc = "tools"
                /\ turns'[r].messages = turns[r].messages ]_vars

C2_Witness ==
  \E r \in Requests :
    /\ turns[r].pc = "tools"
    /\ turns[r].authorized # {}
    /\ \E i \in DOMAIN Pending(turns[r].messages) :
         requires_auth(Pending(turns[r].messages)[i].name)

\* ---- C3 (as claimed): once a handshake failed in a turn, no handshake is
\* invoked and no tool call is executed for that request any more, and the
\* stream of the request ends with the error reported.
C3_AuthFailureFatal ==
  [][ \A r \in Requests :
        turns[r].auth_failed =>
          /\ Running(turns'[r]) =>
               /\ turns'[r].handshakes = turns[r].handshakes
               /\ turns'[r].executed = turns[r].executed
          /\ turns'[r].pc = "closed" => turns'[r].error ]_vars

\* ---- C4: in every history, running or persisted, each tool-role message
\* answers a ToolCallRequest of an ai-role message that precedes it.
Answered(ms) ==
  \A i \in DOMAIN ms :
    ms[i].type = "tool" =>
      \E j \in 1..(i - 1) :
        /\ ms[j].type = "ai"
        /\ \E k \in DOMAIN ms[j].tool_calls : ms[j].tool_calls[k].id = ms[i].tool_call_id

C4_ToolMessagesAnswerRequests ==
  /\ \A r \in Requests : Answered(turns[r].messages)
  /\ \A t \in Threads : Answered(saved[t])

C4_Witness ==
  \E t \in Threads :
    \E i \in DOMAIN saved[t] : saved[t][i].type = "tool" /\ saved[t][i].content = "error"

\* ---- C5: a run of the tool node on pending requests r1..rn appends exactly
\* n tool-role messages whose tool_call_ids are id(r1)..id(rn), in that order,
\* whether the node failed or not.
C5_ToolResultsInRequestOrder ==
  [][ \A r \in Requests :
        (turns[r].pc = "tools" /\ turns'[r].pc = "agent" /\ turns'[r].steps > 0) =>
          LET calls == Pending(turns[r].messages)
              n == Len(turns[r].messages)
              new == SubSeq(turns'[r].messages, n + 1, Len(turns'[r].messages))
          IN /\ SubSeq(turns'[r].messages, 1, n) = turns[r].messages
             /\ Len(new) = Len(calls)
             /\ \A i \in DOMAIN new :
                  new[i].type = "tool" /\ new[i].tool_call_id = calls[i].id ]_vars

\* a batch of two was answered on the failure path
C5_Witness ==
  \E r \in Requests :
    LET ms == turns[r].messages IN
    /\ turns[r].pc = "agent" /\ Len(ms) >= 3
    /\ ms[Len(ms)].type = "tool" /\ ms[Len(ms) - 1].type = "tool"
    /\ ms[Len(ms)].content = "error" /\ ms[Len(ms) - 1].content = "error"
    /\ ms[Len(ms)].tool_call_id # ms[Len(ms) - 1].tool_call_id

\* ---- C6 (as claimed): after a run of the tool node, the message of a call
\* carries an error exactly when that call failed; the siblings of a failed
\* call carry their own results.
C6_PerCallIsolation ==
  \A r \in Requests :
    LET ms == turns[r].messages
        n == Len(turns[r].outcome)
    IN (turns[r].pc = "agent" /\ n > 0 /\ Len(ms) >= n /\ Last(ms).type = "tool") =>
         \A i \in 1..n :
           (ms[Len(ms) - n + i].content = "error") <=> (turns[r].outcome[i] = "error")

\* ---- C7 (as claimed): between two steps of a turn of a thread, no other
\* chat request for the same thread writes to the registry (no
\* reconfiguration, no collaborator failing), and no other turn of the same
\* thread appends to the thread's persisted history.
C7_TurnsSerialized ==
  [][ \A r \in Requests :
        (Running(turns[r]) /\ turns[r].steps > 0) =>
          /\ (ChatStep /\ faults' = faults
                 /\ resp'.request.thread_id = turns[r].thread_id)
                => UNCHANGED registry
          /\ \A r2 \in Requests \ {r} :
               (turns[r2].thread_id = turns[r].thread_id /\ turns'[r2] # turns[r2])
                 => saved'[turns[r].thread_id] = saved[turns[r].thread_id] ]_vars

\* ---- C8: a chat request on an existing thread for a different, non-empty
\* toolkit set without a tool-provider credential is refused (400) and leaves
\* the thread's workflow, configuration and tool manager as they were.
C8_ReconfigureNeedsCredential ==
  [][ (/\ ChatStep
       /\ exists(Registry, resp'.request.thread_id)
       /\ ToSet(resp'.request.toolkits) # ToSet(get_current_toolkits(Registry, resp'.request.thread_id))
       /\ resp'.request.toolkits # <<>>
       /\ ~ARCADE_API_KEY)
      => /\ resp'.status = 400
         /\ UNCHANGED registry ]_vars

C8_Witness ==
  /\ resp.op = "chat" /\ resp.kind = "reconfigure" /\ resp.status = 400
  /\ ~ARCADE_API_KEY
  /\ exists(Registry, resp.request.thread_id)
  /\ resp.request.toolkits # <<>>
  /\ get_current_toolkits(Registry, resp.request.thread_id) = <<>>

\* ---- C9: a successful reconfiguration keeps the thread in the registry,
\* removes no message of its history, and changes nothing but the toolkit
\* list in the stored configuration.
C9_ReconfigureKeepsIdentity ==
  [][ (ChatStep /\ resp'.kind = "reconfigure" /\ resp'.status = 200) =>
        LET t == resp'.request.thread_id IN
        /\ exists(Registry, t) /\ t \in DOMAIN workflows'
        /\ saved' = saved
        /\ \A r \in Requests : InFlight(turns[r]) => turns'[r] = turns[r]
        /\ configurations'[t].provider = configurations[t].provider
        /\ configurations'[t].model = configurations[t].model
        /\ configurations'[t].enable_memory = configurations[t].enable_memory
        /\ DOMAIN configurations'[t] = DOMAIN configurations[t] ]_vars

\* a reconfiguration of a thread whose history holds a finished tool round
C9_Witness ==
  /\ resp.op = "chat" /\ resp.kind = "reconfigure" /\ resp.status = 200
  /\ \E i \in DOMAIN saved[resp.request.thread_id] :
       saved[resp.request.thread_id][i].type = "tool"
  /\ turns[resp.id].pc = "start"

\* ---- C10: a reconfiguration from toolkit list O to N reports
\* added = N \ O and removed = O \ N and stores N as the current toolkits.
C10_ChangesAreSetDifferences ==
  [][ (ChatStep /\ resp'.kind = "reconfigure" /\ resp'.status = 200) =>
        LET t == resp'.request.thread_id
            O == ToSet(get_current_toolkits(Registry, t))
            N == ToSet(resp'.request.toolkits)
            added == resp'.changes.added_tools
            removed == resp'.changes.removed_tools
        IN /\ added = N \ O
           /\ removed = O \ N
           /\ added \cap removed = {}
           /\ (O \cup added) \ removed = N
           /\ get_current_toolkits([workflows |-> workflows',
                                    configurations |-> configurations',
                                    tool_managers |-> tool_managers'], t)
                = resp'.request.toolkits ]_vars

\* O = {Calendar}, N = {Calendar, Drive}: added = {Drive}, removed = {}
C10_Witness ==
  /\ resp.op = "chat" /\ resp.kind = "reconfigure" /\ resp.status = 200
  /\ resp.changes.old_toolkits = <<"Calendar">>
  /\ resp.request.toolkits = <<"Calendar", "Drive">>
  /\ resp.changes.added_tools = {"Drive"}
  /\ resp.changes.removed_tools = {}
  /\ get_current_toolkits(Registry, resp.request.thread_id) = <<"Calendar", "Drive">>

\* the histories the routing function can be handed by the agent node of a
\* turn that is about to run it: the history plus the node's ai-role message
AgentOutputs(tn) ==
  {Append(tn.messages, call_agent(tn.messages, answer)) : answer \in ModelAnswers(tn)}

\* the turn is about to run the agent node of a workflow with a routing function
AtRoutedAgent(tn) == tn.pc = "agent" /\ tn.workflow.tools # {}

\* the thread's last turn ended normally and left its history in the store
EndedStored(t) ==
  /\ t \in DOMAIN workflows /\ workflows[t].tools # {}
  /\ saved[t] # <<>>
  /\ \A r \in Requests : turns[r].thread_id = t => ~InFlight(turns[r])
  /\ \E r \in Requests :
       turns[r].thread_id = t /\ turns[r].pc = "closed" /\ ~turns[r].error

\* ---- C11: whatever the history and the number of tool calls counted so
\* far, an ai-role message without tool calls makes the routing function
\* return END.
C11_NoCallsTerminates ==
  \A r \in Requests :
    AtRoutedAgent(turns[r]) =>
      \A ms \in AgentOutputs(turns[r]) :
        Pending(ms) = <<>> => should_continue(ms, turns[r].workflow.tool_manager) = END

\* a turn that went through a tool round ended on an answer without calls
C11_Witness ==
  \E t \in Threads :
    /\ EndedStored(t)
    /\ Last(saved[t]).type = "ai" /\ Last(saved[t]).tool_calls = <<>>
    /\ \E i \in DOMAIN saved[t] : saved[t][i].type = "tool"

\* ---- C12: when the tool calls counted over the last ROUTING_WINDOW
\* messages exceed the ceiling the routing function returns END, a count
\* equal to the ceiling lets the pending calls through, and a turn that ended
\* takes no further step.
C12_Trips ==
  \A r \in Requests :
    AtRoutedAgent(turns[r]) =>
      \A ms \in AgentOutputs(turns[r]) :
        LET count == SumCalls(LastN(ms, ROUTING_WINDOW))
            route == should_continue(ms, turns[r].workflow.tool_manager)
        IN /\ count > MAX_TOOL_CALLS_PER_TURN => route = END
           /\ (count = MAX_TOOL_CALLS_PER_TURN /\ Pending(ms) # <<>>) => route # END

C12_CeilingTrips ==
  [][ /\ C12_Trips'
      /\ \A r \in Requests :
           /\ turns[r].pc = "closed" => turns'[r] = turns[r]
           /\ (turns[r].pc = "agent" /\ Running(turns'[r]) /\ turns'[r].steps > turns[r].steps)
                => SumCalls(LastN(turns'[r].messages, ROUTING_WINDOW))
                     <= MAX_TOOL_CALLS_PER_TURN ]_vars

\* the ceiling tripped: the turn ended on an ai-role message that still
\* carries calls, with more than the ceiling counted in the window
C12_Witness ==
  \E t \in Threads :
    /\ EndedStored(t)
    /\ Last(saved[t]).type = "ai" /\ Last(saved[t]).tool_calls # <<>>
    /\ SumCalls(LastN(saved[t], ROUTING_WINDOW)) > MAX_TOOL_CALLS_PER_TURN

\* ---- C13: with pending calls and the count within the ceiling, the routing
\* function returns "authorization" exactly when some pending call's tool
\* requires authorization, and "tools" otherwise.
C13_RoutesByAuthorization ==
  \A r \in Requests :
    AtRoutedAgent(turns[r]) =>
      \A ms \in AgentOutputs(turns[r]) :
        LET route == should_continue(ms, turns[r].workflow.tool_manager)
            flagged == \E i \in DOMAIN Pending(ms) : requires_auth(Pending(ms)[i].name)
        IN (Pending(ms) # <<>>
            /\ SumCalls(LastN(ms, ROUTING_WINDOW)) <= MAX_TOOL_CALLS_PER_TURN)
             => /\ (route = "authorization") <=> flagged
                /\ (route = "tools") <=> ~flagged

\* a batch that mixes a free call and a flagged call was sent to authorization
C13_Witness ==
  \E r \in Requests :
    /\ turns[r].pc = "authorization"
    /\ Len(Pending(turns[r].messages)) = 2
    /\ ~requires_auth(Pending(turns[r].messages)[1].name)
    /\ requires_auth(Pending(turns[r].messages)[2].name)

\* ---- C14 (as claimed): a turn that leaves the agent node of a workflow
\* with tools for its end closes on an ai-role message without tool calls: the answer of the model
\* when it asked for no tool, the message of the fallback node when the
\* ceiling tripped.
C14_FallbackEndsTurn ==
  [][ \A r \in Requests :
        (AtRoutedAgent(turns[r]) /\ turns[r].stored /\ turns'[r].pc = "closed") =>
          LET last == Last(saved'[turns[r].thread_id])
          IN last.type = "ai" /\ last.tool_calls = <<>> ]_vars

\* the ai-role messages of a history
AiMessages(ms) == {ms[i] : i \in {k \in DOMAIN ms : ms[k].type = "ai"}}

\* every history the program holds: of the runs and of the store
Histories ==
  {turns[r].messages : r \in Requests} \cup {saved[t] : t \in Threads}

\* ---- C15: no ai-role message, in a run or in the store, and no message
\* the agent node can return, carries a tool call whose name is empty after
\* trimming.
C15_EmptyNamesDropped ==
  /\ \A ms \in Histories : \A m \in AiMessages(ms) :
       \A i \in DOMAIN m.tool_calls : Strip(m.tool_calls[i].name) # ""
  /\ \A r \in Requests :
       turns[r].pc = "agent" =>
         \A ms \in AgentOutputs(turns[r]) :
           \A i \in DOMAIN Pending(ms) : Strip(Pending(ms)[i].name) # ""

\* the first of two streamed entries had a blank name: the message that
\* reached the tool node carries the second entry alone
C15_Witness ==
  \E r \in Requests :
    /\ turns[r].pc = "tools"
    /\ Len(turns[r].messages) = 2
    /\ Len(Pending(turns[r].messages)) = 1
    /\ Pending(turns[r].messages)[1].id = 2

\* ---- C16 (as claimed): no ai-role message carries two tool calls with the
\* same id.
C16_CallsDeduplicated ==
  \A ms \in Histories : \A m \in AiMessages(ms) :
    \A i, j \in DOMAIN m.tool_calls :
      m.tool_calls[i].id = m.tool_calls[j].id => i = j

\* ---- C17: the list the agent node sends to the model starts with a system
\* message; the node puts its system prompt in front exactly when the history
\* does not start with a system message, the prompt then appears once, at the
\* front, and a second pass over the list adds nothing.
C17_SystemMessageOnce ==
  \A r \in Requests :
    turns[r].pc = "agent" =>
      LET ms == turns[r].messages
          sent == ensure_system_message(ms, SystemPrompt)
      IN /\ sent # <<>> /\ sent[1].type = "system"
         /\ (ms # <<>> /\ ms[1].type = "system") => sent = ms
         /\ (ms = <<>> \/ ms[1].type # "system") => sent = <<SystemPrompt>> \o ms
         /\ Cardinality({i \in DOMAIN sent : sent[i] = SystemPrompt}) <= 1
         /\ \A i \in DOMAIN sent : sent[i] = SystemPrompt => i = 1
         /\ ensure_system_message(sent, SystemPrompt) = sent

\* the agent node runs again, after a tool round, on a history that starts
\* with the system message of a reconfiguration
C17_Witness ==
  \E r \in Requests :
    /\ turns[r].pc = "agent" /\ turns[r].steps > 0
    /\ turns[r].messages[1].type = "system"

\* ---- C18: a model stream that fails, with or without tool-call entries
\* streamed before the failure, makes the agent node return one ai-role
\* message that reports the failure and carries no tool call, and the turn
\* then ends without a run of the tool or authorization node.
C18_ModelFailureEndsTurn ==
  \A r \in Requests :
    turns[r].pc = "agent" =>
      \A answer \in ModelAnswers(turns[r]) :
        answer.fails =>
          LET m == call_agent(turns[r].messages, answer)
          IN /\ m.type = "ai"
             /\ m.content = "I encountered an error"
             /\ m.tool_calls = <<>>
             /\ AfterAgent(turns[r].workflow, Append(turns[r].messages, m)) = END

\* a turn of a thread with tools ended on the message that reports the failure
C18_Witness ==
  \E t \in Threads :
    /\ EndedStored(t)
    /\ Last(saved[t]).type = "ai"
    /\ Last(saved[t]).content = "I encountered an error"
    /\ Last(saved[t]).tool_calls = <<>>

\* a step in which a turn fails: its session is missing when the stream
\* starts, a handshake fails, or the step budget is spent
FailureStep(r) ==
  /\ turns'[r] # turns[r]
  /\ \/ turns[r].pc = "start" /\ ~exists(Registry, turns[r].thread_id)
     \/ turns[r].pc = "authorization" /\ turns'[r].pc # "tools"
     \/ Running(turns[r]) /\ turns[r].steps >= MAX_RECURSION_DEPTH

\* ---- C19 (as claimed): the step in which a turn fails closes its stream
\* with exactly one more chunk, the "[ERROR]" chunk, and leaves the registry
\* as it was.
C19_FailuresReportedInBand ==
  [][ \A r \in Requests :
        FailureStep(r) =>
          /\ turns'[r].pc = "closed"
          /\ turns'[r].error
          /\ turns'[r].chunks = turns[r].chunks + 1
          /\ UNCHANGED registry ]_vars

\* ---- C20: a chat request for a thread that is not in the registry, when it
\* succeeds, puts the thread in the registry with the requested provider,
\* model, toolkit list and memory flag (ollama and llama3.2 when none is
\* given); when it fails the thread is still not in the registry.
C20_CreatesSession ==
  [][ (ChatStep /\ ~exists(Registry, resp'.request.thread_id)) =>
        LET rq == resp'.request
            t == rq.thread_id
        IN IF resp'.status = 200
             THEN /\ t \in DOMAIN workflows'
                  /\ t \in DOMAIN configurations'
                  /\ configurations'[t] =
                       [provider |-> IF rq.provider = None THEN "ollama" ELSE rq.provider,
                        model |-> IF rq.model = None THEN "llama3.2" ELSE rq.model,
                        toolkits |-> rq.toolkits,
                        enable_memory |-> rq.enable_memory]
             ELSE /\ t \notin DOMAIN workflows'
                  /\ workflows' = workflows ]_vars

\* a session created from a request that names everything
C20_Witness ==
  /\ resp.op = "chat" /\ resp.kind = "create" /\ resp.status = 200
  /\ resp.request.provider = OPENAI /\ resp.request.model = "gpt-4"
  /\ resp.request.toolkits = <<"Drive", "Calendar">>
  /\ ~resp.request.enable_memory
  /\ exists(Registry, resp.request.thread_id)
  /\ configurations[resp.request.thread_id] =
       [provider |-> OPENAI, model |-> "gpt-4",
        toolkits |-> <<"Drive", "Calendar">>, enable_memory |-> FALSE]

\* ---- C21: an accepted chat request on a known thread reconfigures the
\* thread exactly when the requested toolkits differ, as a set, from the
\* current ones; the registry holds the new toolkits before the turn starts,
\* and the turn's input starts with the change summary exactly in that case.
\* A request with the same set leaves the registry alone and hands the turn
\* the user message only.
C21_ReconfigureIffSetsDiffer ==
  [][ (ChatStep /\ exists(Registry, resp'.request.thread_id) /\ resp'.status = 200) =>
        LET t == resp'.request.thread_id
            differs == ToSet(get_current_toolkits(Registry, t)) # ToSet(resp'.request.toolkits)
            turn == turns'[resp'.id]
        IN /\ turn.pc = "start" /\ turn.thread_id = t
           /\ (resp'.kind = "reconfigure") <=> differs
           /\ (turn.input[1].type = "system") <=> differs
           /\ differs => /\ turn.input = <<ToolChangeMsg, HumanMsg>>
                          /\ configurations'[t].toolkits = resp'.request.toolkits
                          /\ workflows'[t].tools
                               = {ToolOf(k) : k \in ToSet(resp'.request.toolkits)}
           /\ ~differs => /\ turn.input = <<HumanMsg>>
                           /\ UNCHANGED registry ]_vars

\* the same two toolkits in another order: nothing is reconfigured
C21_Witness ==
  /\ resp.op = "chat" /\ resp.kind = "unchanged" /\ resp.status = 200
  /\ resp.request.toolkits = <<"Drive", "Calendar">>
  /\ get_current_toolkits(Registry, resp.request.thread_id) = <<"Calendar", "Drive">>
  /\ turns[resp.id].input = <<HumanMsg>>

\* ---- C22: deleting a thread of the registry removes its workflow, its
\* configuration and its tool manager and answers 200; deleting a thread that
\* is not in the registry answers 404 and changes nothing.
C22_DeleteThenNotFound ==
  [][ (resp'.op = "delete" /\ vars' # vars) =>
        LET t == resp'.request.thread_id
        IN IF exists(Registry, t)
             THEN /\ resp'.status = 200
                  /\ t \notin DOMAIN workflows'
                  /\ t \notin DOMAIN configurations'
                  /\ t \notin DOMAIN tool_managers'
             ELSE /\ resp'.status = 404
                  /\ UNCHANGED registry ]_vars

\* the second deletion of a thread that a chat request had created
C22_Witness ==
  /\ resp.op = "delete" /\ resp.status = 404
  /\ ~exists(Registry, resp.request.thread_id)
  /\ \E r \in Requests :
       turns[r].pc = "start" /\ turns[r].thread_id = resp.request.thread_id

\* what the registry holds for a thread
Entry(reg, t) ==
  <<IF t \in DOMAIN reg.workflows THEN <<reg.workflows[t]>> ELSE <<>>,
    IF t \in DOMAIN reg.configurations THEN <<reg.configurations[t]>> ELSE <<>>,
    IF t \in DOMAIN reg.tool_managers THEN <<reg.tool_managers[t]>> ELSE <<>> >>

\* ---- C23: a chat request or a deletion for one thread, accepted or not,
\* leaves the workflow, configuration and tool manager of every other thread
\* as they were.
C23_ThreadsIndependent ==
  [][ \A B \in Threads :
        B # resp'.request.thread_id =>
          Entry([workflows |-> workflows', configurations |-> configurations',
                 tool_managers |-> tool_managers'], B)
            = Entry(Registry, B) ]_vars

\* one thread was deleted while the other holds a workflow and a tool manager
C23_Witness ==
  /\ resp.op = "delete" /\ resp.status = 200
  /\ \E B \in Threads \ {resp.request.thread_id} :
       exists(Registry, B) /\ B \in DOMAIN tool_managers

\* ---- C24: a turn takes its workflow, and its decision to run with the
\* store, from the registry state in which its stream starts, and whatever
\* happens to the registry while it runs, the workflow it runs stays the one
\* it took.
C24_TurnRunsOnSnapshot ==
  [][ \A r \in Requests :
        /\ (turns[r].pc = "start" /\ Running(turns'[r])) =>
             /\ turns'[r].workflow = workflows[turns[r].thread_id]
             /\ turns'[r].stored =>
                  configurations[turns[r].thread_id].enable_memory /\ DATABASE_URL
        /\ (Running(turns[r]) /\ Running(turns'[r])) =>
             turns'[r].workflow = turns[r].workflow ]_vars

\* a turn between two steps whose thread has been reconfigured since it started
C24_Witness ==
  \E r \in Requests :
    /\ Running(turns[r]) /\ turns[r].steps > 0
    /\ exists(Registry, turns[r].thread_id)
    /\ workflows[turns[r].thread_id] # turns[r].workflow

\* ---- C25: whatever the memory store does in a run of the agent node, no
\* exception leaves the node and the node returns the ai-role message of the
\* model call; after a failed search the model is sent the system prompt
\* without memories.
C25_MemoryBestEffort ==
  \A r \in Requests :
    turns[r].pc = "agent" =>
      \A mem \in MemoryOutcomes(turns[r].stored) :
        \A answer \in ModelAnswers(turns[r]) :
          LET node == agent_node(turns[r], mem, answer)
          IN /\ ~node.raised
             /\ node.message.type = "ai"
             /\ node.message = call_agent(turns[r].messages, answer)
             /\ mem.search = "raises" =>
                  node.sent = ensure_system_message(turns[r].messages,
                    build_system_message("", turns[r].workflow.tool_manager))

\* the only failure of the behaviour was one of the memory store, in the one
\* agent run of a turn that ended with the model's answer in the store
C25_Witness ==
  /\ faults = 1 /\ nreq = 1
  /\ turns[1].pc = "closed" /\ ~turns[1].error
  /\ Len(saved["t1"]) = 2
  /\ saved["t1"][2].type = "ai" /\ saved["t1"][2].content = "text"

\* ---- C26 (as claimed): within one turn the tool node is never handed more
\* calls in total than MAX_TOOL_CALLS_PER_TURN: no step of the tool node takes
\* the calls executed in its turn above the ceiling (no collaborator failing).
C26_CeilingRespected ==
  [][ \A r \in Requests :
        (faults' = 0 /\ turns'[r].executed > turns[r].executed) =>
          turns'[r].executed <= MAX_TOOL_CALLS_PER_TURN ]_vars

\* ---- C27 (as claimed): a request to a path that is neither one of the
\* public paths nor an optional-authentication path, carrying no bearer token
\* or an invalid one, is answered 401 by the middleware and never reaches the
\* handler.
C27_ProtectedPathsRejected ==
  (/\ exchange.op = "dispatch"
   /\ exchange.path \notin public_paths
   /\ ~_is_optional_auth_path(exchange.path)
   /\ _extract_token(exchange.authorization) \in {None, "bad"})
    => (exchange.status = 401 /\ ~exchange.passed)

\* a login request is being answered
LoginStep == attempts' = attempts + 1

C29_ToollessTurn ==
  [][ \A r \in Requests :
        (Running(turns[r]) /\ turns[r].workflow.tool_manager.toolkits = <<>>) =>
          /\ turns[r].pc = "agent" /\ turns[r].steps = 0
          /\ turns[r].executed = 0 /\ turns[r].handshakes = 0
          /\ turns'[r] # turns[r] =>
               /\ turns'[r].pc = "closed" /\ ~turns'[r].error
               /\ turns[r].stored =>
                    LET before == turns[r].messages
                        after == saved'[turns[r].thread_id]
                    IN /\ Len(after) = Len(before) + 1
                       /\ SubSeq(after, 1, Len(before)) = before
                       /\ Last(after).type = "ai" ]_vars

\* the model of a toolless thread asked for a tool, and the turn ended there
C29_Witness ==
  /\ nreq = 1
  /\ "t1" \in DOMAIN workflows /\ workflows["t1"].tool_manager.toolkits = <<>>
  /\ turns[1].pc = "closed" /\ ~turns[1].error
  /\ Len(saved["t1"]) = 2
  /\ saved["t1"][2].type = "ai" /\ saved["t1"][2].tool_calls # <<>>

\* the turn r takes a step that neither restarts the run nor ends it in error
Proceeds(r) ==
  /\ turns'[r] # turns[r]
  /\ turns'[r].reruns = turns[r].reruns
  /\ ~(turns'[r].pc = "closed" /\ turns'[r].error)

\* ---- C30: in a turn of a session with tools, a run starts at the agent
\* node; a step of the tool node that does not abort the run leads to the
\* agent node; a step of the authorization node that does not abort the run
\* leads to the tool node and adds no message; and a run ends without error
\* only by the step of its agent node.
C30_NodeOrder ==
  [][ \A r \in Requests :
        /\ (turns[r].pc = "start" /\ Running(turns'[r]) /\ turns'[r].workflow.tools # {}) =>
             (turns'[r].pc = "agent" /\ turns'[r].steps = 0)
        /\ (Running(turns[r]) /\ turns[r].workflow.tools # {}) =>
             /\ turns'[r].reruns > turns[r].reruns =>
                  (turns'[r].pc = "agent" /\ turns'[r].steps = 0)
             /\ (turns[r].pc = "tools" /\ Proceeds(r)) =>
                  (turns'[r].pc = "agent" /\ turns'[r].steps = turns[r].steps + 1)
             /\ (turns[r].pc = "authorization" /\ Proceeds(r)) =>
                  /\ turns'[r].pc = "tools" /\ turns'[r].steps = turns[r].steps + 1
                  /\ turns'[r].messages = turns[r].messages
             /\ (turns'[r].pc = "closed" /\ ~turns'[r].error) => turns[r].pc = "agent" ]_vars

\* agent, authorization, tools and the agent again, in one run
C30_Witness ==
  \E r \in Requests :
    /\ turns[r].pc = "agent" /\ turns[r].steps = 3 /\ turns[r].reruns = 0
    /\ turns[r].handshakes > 0 /\ turns[r].executed > 0

\* the prompts that hold "remember" in some letter case
TriggerPrompts == {"Please REMEMBER"}

\* the turn r runs its agent node
AgentNodeStep(r) ==
  /\ turns[r].pc = "agent" /\ turns[r].steps < MAX_RECURSION_DEPTH
  /\ turns'[r] # turns[r]

\* ---- C31: a run of the agent node adds at most one entry to the memory
\* store, and it adds one, holding the whole content of the last human
\* message, exactly when the run has a store and that content holds
\* "remember" in some letter case (the store not failing); no step changes or
\* removes an entry.
C31_RememberWritesOneEntry ==
  [][ /\ Len(memories') >= Len(memories)
      /\ SubSeq(memories', 1, Len(memories)) = memories
      /\ \A r \in Requests :
           AgentNodeStep(r) =>
             LET human == last_user_message(turns[r].messages)
                 wanted == /\ turns[r].stored /\ human.found
                           /\ human.content \in TriggerPrompts
             IN /\ memories' # memories =>
                     (wanted /\ memories' = Append(memories, human.content))
                /\ (wanted /\ faults' = faults) => memories' # memories
      /\ (\A r \in Requests : ~AgentNodeStep(r)) => memories' = memories ]_vars

\* two agent runs of one turn each stored the prompt
C31_Witness ==
  /\ memories = <<"Please REMEMBER", "Please REMEMBER">>
  /\ nreq = 1 /\ turns[1].pc = "tools"

\* ---- C32 (as claimed): a chat request that reconfigures the tools of a
\* thread leaves the thread's model with the provider, model name,
\* temperature and max-tokens it had before.
C32_ReconfigureKeepsModel ==
  [][ (ChatStep /\ resp'.kind = "reconfigure" /\ resp'.status = 200) =>
        LET t == resp'.request.thread_id
        IN /\ workflows'[t].provider = workflows[t].provider
           /\ workflows'[t].model = workflows[t].model
           /\ workflows'[t].temperature = workflows[t].temperature
           /\ workflows'[t].max_tokens = workflows[t].max_tokens ]_vars

\* ---- C33: a run of the agent node, whether the model call succeeds or
\* fails, leaves the history of its run, and the stored history of a run with
\* storage, equal to the history before it followed by exactly one message,
\* of the ai role: the system prompt is not added and no earlier message
\* changes.
C33_AgentAddsOneAiMessage ==
  [][ \A r \in Requests :
        (AgentNodeStep(r) /\ turns'[r].reruns = turns[r].reruns) =>
          LET before == turns[r].messages
              t == turns[r].thread_id
          IN /\ Running(turns'[r]) =>
                  /\ Len(turns'[r].messages) = Len(before) + 1
                  /\ SubSeq(turns'[r].messages, 1, Len(before)) = before
                  /\ Last(turns'[r].messages).type = "ai"
             /\ turns[r].stored =>
                  /\ Len(saved'[t]) = Len(before) + 1
                  /\ SubSeq(saved'[t], 1, Len(before)) = before
                  /\ Last(saved'[t]).type = "ai"
             /\ ~turns[r].stored => saved' = saved ]_vars

\* the second agent run of a turn with storage has added its one message to a
\* history that still starts with the human message
C33_Witness ==
  \E r \in Requests :
    /\ turns[r].pc = "tools" /\ turns[r].steps = 3 /\ turns[r].stored
    /\ turns[r].messages[1].type = "human"
    /\ saved[turns[r].thread_id] = turns[r].messages
    /\ Cardinality({i \in DOMAIN turns[r].messages : turns[r].messages[i].type = "ai"}) = 2

\* a call of enforce_rate_limit is being answered
EnforceStep == limited' # limited \/ user_requests' # user_requests

\* the timestamps of a deque that lie in the window that ends at t
InWindow(request_times, t) ==
  {i \in DOMAIN request_times :
     t - RATE_WINDOW <= request_times[i] /\ request_times[i] <= t}

\* every deque is in time order and no window of RATE_WINDOW seconds holds
\* more of its timestamps than the limit of its endpoint type
C34_WindowsWithinLimit ==
  \A p \in RatePairs :
    LET request_times == user_requests[p] IN
    /\ \A i, j \in DOMAIN request_times : i < j => request_times[i] <= request_times[j]
    /\ \A i \in DOMAIN request_times :
         Cardinality(InWindow(request_times, request_times[i] + RATE_WINDOW))
           <= _get_rate_limit(p[2])

\* ---- C34: a call is admitted exactly when fewer than the limit of its
\* endpoint type of the caller's own admitted calls lie in the window that
\* ends now; an admitted call records its time, a rejected call is answered
\* 429 and records nothing; only timestamps older than the window are
\* forgotten, so no window ever holds more admitted calls than the limit;
\* and the deques of the other users and endpoint types are left alone.
C34_RateLimit ==
  [][ EnforceStep =>
        LET key == <<limited'.user_id, limited'.endpoint_type>>
            before == user_requests[key]
            after == user_requests'[key]
            recent == InWindow(before, clock)
            kept == SubSeq(before, Len(before) - Cardinality(recent) + 1, Len(before))
        IN /\ limited'.status \in {200, 429}
           /\ limited'.status = 200 <=>
                Cardinality(recent) < _get_rate_limit(limited'.endpoint_type)
           /\ limited'.status = 200 => after = Append(kept, clock)
           /\ limited'.status = 429 => after = kept
           /\ \A p \in RatePairs \ {key} : user_requests'[p] = user_requests[p]
           /\ C34_WindowsWithinLimit' ]_vars

\* the eleventh key operation of a user within a minute was turned away,
\* after another user and another endpoint type had been served
C34_Witness ==
  /\ limited = [user_id |-> "u1", endpoint_type |-> "key_operations", at |-> clock,
                status |-> 429]
  /\ Len(user_requests[<<"u1", "key_operations">>]) = key_operations_per_minute
  /\ user_requests[<<"u1", "key_operations">>][1] < clock
  /\ user_requests[<<"u2", "key_operations">>] # <<>>
  /\ user_requests[<<"u1", "chat">>] # <<>>

\* ---- C35 (as claimed): whatever chat requests and deletions were served,
\* failed ones included, a thread has a configuration or a tool manager only
\* if it has a workflow, and a thread with a workflow has a configuration.
C35_RegistryConsistent ==
  \A t \in Threads :
    /\ t \in DOMAIN configurations => t \in DOMAIN workflows
    /\ t \in DOMAIN tool_managers => t \in DOMAIN workflows
    /\ t \in DOMAIN workflows => t \in DOMAIN configurations

\* ---- C36 (as claimed): a chat request whose reconfiguration raises leaves
\* the workflow, the configuration and the tool manager of its thread, and
\* the rest of the registry, as they were.
C36_FailedReconfigureChangesNothing ==
  [][ (ChatStep /\ resp'.kind = "reconfigure" /\ resp'.status = 500) =>
        UNCHANGED registry ]_vars

\* the tool-role messages after position i of a history that answer the call id
Answers(ms, i, id) ==
  {j \in DOMAIN ms : j > i /\ ms[j].type = "tool" /\ ms[j].tool_call_id = id}

\* where the last turn of a history starts: at its human-role message
TurnStart(ms) == MaxOf({i \in DOMAIN ms : ms[i].type = "human"})

\* every tool call of every ai-role message of the last turn of a history has
\* its own tool-role message later in the history: as many answers carry an
\* id as the message carries calls with that id, one when the ids are distinct
NoDanglingCalls(ms) ==
  \A i \in DOMAIN ms :
    (i > TurnStart(ms) /\ ms[i].type = "ai") =>
      \A k \in DOMAIN ms[i].tool_calls :
        LET id == ms[i].tool_calls[k].id IN
        Cardinality(Answers(ms, i, id)) =
          Cardinality({n \in DOMAIN ms[i].tool_calls : ms[i].tool_calls[n].id = id})

\* ---- C37 (as claimed): when a turn of a workflow with tools leaves the
\* agent node for its end without an error, every tool call of every ai-role
\* message of the turn has its tool-role message, with its id, later in the
\* history the turn leaves, also when the ceiling ended the turn.
C37_NoDanglingToolCalls ==
  [][ \A r \in Requests :
        (AtRoutedAgent(turns[r]) /\ turns[r].stored
           /\ turns'[r].pc = "closed" /\ ~turns'[r].error) =>
          NoDanglingCalls(saved'[turns[r].thread_id]) ]_vars

\* ---- C38 (as claimed): once a node of the workflow is due in the run of a
\* request, no step starts the workflow again for that request: a failure of
\* the run with storage is not followed by a second execution.
C38_WorkflowRunsOnce ==
  [][ \A r \in Requests :
        Running(turns[r]) => turns'[r].reruns <= turns[r].reruns ]_vars

\* ---- C39 (as claimed): no run takes more than MAX_RECURSION_DEPTH node
\* steps, and the step of a turn that has spent them while a node is still
\* due ends the turn with one more chunk, the "[ERROR]" chunk: no node runs
\* for the request after the limit was reached.
C39_TurnEndsAtRecursionLimit ==
  [][ \A r \in Requests :
        /\ turns'[r].steps <= MAX_RECURSION_DEPTH
        /\ (Running(turns[r]) /\ turns[r].steps = MAX_RECURSION_DEPTH
              /\ turns'[r] # turns[r]) =>
             /\ ~Running(turns'[r])
             /\ turns'[r].pc = "closed" /\ turns'[r].error
             /\ turns'[r].chunks = turns[r].chunks + 1 ]_vars

====
